---- MODULE Spec2Model ----
(***************************************************************************)
(* InsuremoRateTool (src/InsuremoRateTool.py): the two-step rating         *)
(* pipeline run_sync = _initialize; validate; _create_policy;              *)
(* _calculate_premium; _create_success_response, with the session's        *)
(* urllib3 retry policy and the finally-block cleanup.                     *)
(*                                                                         *)
(* JSON values are tagged records [t, v]; a dict is a set of <<key, value>>*)
(* pairs, a list a sequence, a string a sequence of text fragments (so     *)
(* that an f-string / join keeps the pieces it was formatted from).        *)
(***************************************************************************)
EXTENDS Integers, Sequences, FiniteSets, TLC

VARIABLES
    env,           \* os.environ and the installed packages
    config,        \* InsuremoRateTool.config, the class-level dictionary
    tool,          \* the instance: api_token, base_url, session, _initialized,
                   \* and the config argument it was constructed with
    closed,        \* per session ever created, the number of close() calls
    pc,            \* where run_sync stands: idle, create, calculate, done
    kwargs,        \* the request of the run_sync call in progress
    call_args,     \* the api_token and base_url arguments of that call, and
                   \* the number of sessions created before it
    payload,       \* the document _create_policy built
    retries,       \* retry budget left for the POST in progress
    calls,         \* the HTTP attempts of the call in progress, in order
    created_data,  \* what _create_policy returned
    result,        \* what run_sync returned
    propagated,    \* type of an exception run_sync let escape, "" if none
    create_out,    \* final outcome of the create POST of this call
    calc_out,      \* final outcome of the calculate POST of this call
    only503,       \* every create attempt of this call was answered 503
    last,          \* how the latest HTTP attempt of this call ended
    runs,          \* number of run_sync calls started
    now,           \* the day datetime.now() falls on
    built          \* direct _build_policy_payload calls: the first and the latest

vars == <<env, config, tool, closed, pc, kwargs, call_args,
          payload, retries, calls,
          created_data, result, propagated, create_out, calc_out, only503, last,
          runs,
          now, built>>

\* ---------------------------------------------------------------- bounds
MaxRuns == 2
MaxTicks == 1
MaxSessions == 1

\* ------------------------------------------------------- program constants
DefaultTimeoutSeconds == 30
DefaultMaxRetries == 3
DefaultBackoffFactor == 1

\* ------------------------------------------------------------ JSON values
Null == [t |-> "null", v |-> 0]
Num(n) == [t |-> "num", v |-> n]
Bool(b) == [t |-> "bool", v |-> b]
Str(s) == [t |-> "str", v |-> <<s>>]
StrSeq(fragments) == [t |-> "str", v |-> fragments]
List(s) == [t |-> "list", v |-> s]
Dict(pairs) == [t |-> "dict", v |-> pairs]
EmptyList == List(<<>>)
EmptyDict == Dict({})

\* A body that is not JSON at all: response.json() raises on it.
Malformed == [t |-> "malformed", v |-> 0]

Keys(d) == {p[1] : p \in d.v}
HasKey(d, k) == \E p \in d.v : p[1] = k

\* dict.get(k, default)
Get(d, k, default) ==
    IF HasKey(d, k) THEN (CHOOSE p \in d.v : p[1] = k)[2] ELSE default

\* Python truthiness: `not x` is true of None, 0, False, "", [], {}.
Falsy(x) ==
    \/ x.t = "null"
    \/ (x.t = "num" /\ x.v = 0)
    \/ (x.t = "bool" /\ x.v = FALSE)
    \/ (x.t = "str" /\ (x.v = <<>> \/ x.v = <<"">>))
    \/ (x.t = "list" /\ x.v = <<>>)
    \/ (x.t = "dict" /\ x.v = {})

Range(s) == {s[i] : i \in 1..Len(s)}

\* ', '.join(fields): the fields interleaved with the separator.
RECURSIVE Join(_)
Join(fields) ==
    IF fields = <<>> THEN <<>>
    ELSE IF Len(fields) = 1 THEN <<fields[1]>>
    ELSE <<fields[1], ", ">> \o Join(Tail(fields))

\* int(x) of Python: a number as it is, a string of decimal digits parsed,
\* ValueError / TypeError for anything else.
Digits == <<"0", "1", "2", "3", "4", "5", "6", "7", "8", "9">>
DigitValue(c) == (CHOOSE i \in 1..10 : Digits[i] = c) - 1
IsDecimal(v) == v # <<>> /\ \A i \in 1..Len(v) : v[i] \in Range(Digits)
RECURSIVE ParseDecimal(_)
ParseDecimal(v) ==
    IF v = <<>> THEN 0
    ELSE 10 * ParseDecimal(SubSeq(v, 1, Len(v) - 1)) + DigitValue(v[Len(v)])
int_raises(x) == ~(x.t = "num" \/ (x.t = "str" /\ IsDecimal(x.v)))
int_value(x) == IF x.t = "num" THEN Num(x.v) ELSE Num(ParseDecimal(x.v))

\* datetime: a date is the number of days since 1970-01-01 (the proleptic
\* Gregorian calendar of datetime.date); timedelta(days = n) adds n to it.
days_from_civil(y, m, d) ==
    LET yy == IF m <= 2 THEN y - 1 ELSE y
        era == yy \div 400
        yoe == yy - era * 400
        mp == IF m > 2 THEN m - 3 ELSE m + 9
        doy == (153 * mp + 2) \div 5 + d - 1
        doe == yoe * 365 + yoe \div 4 - yoe \div 100 + doy
    IN era * 146097 + doe - 719468

civil_from_days(z) ==
    LET zz == z + 719468
        era == zz \div 146097
        doe == zz - era * 146097
        yoe == (doe - doe \div 1460 + doe \div 36524 - doe \div 146096) \div 365
        doy == doe - (365 * yoe + yoe \div 4 - yoe \div 100)
        mp == (5 * doy + 2) \div 153
        d == doy - (153 * mp + 2) \div 5 + 1
        m == IF mp < 10 THEN mp + 3 ELSE mp - 9
    IN [year |-> yoe + era * 400 + (IF m <= 2 THEN 1 ELSE 0),
        month |-> m, day |-> d]

\* A number as `width` decimal digits, zero padded (%Y, %m, %d).
RECURSIVE ZeroPadded(_, _)
ZeroPadded(n, width) ==
    IF width = 0 THEN <<>>
    ELSE ZeroPadded(n \div 10, width - 1) \o <<Digits[(n % 10) + 1]>>

\* date.strftime("%Y-%m-%d"), character by character.
strftime(z) ==
    LET c == civil_from_days(z) IN
    StrSeq(ZeroPadded(c.year, 4) \o <<"-">> \o ZeroPadded(c.month, 2)
           \o <<"-">> \o ZeroPadded(c.day, 2))

\* Mutation: the policy runs for 366 days.
get_default_dates_366(today) ==
    [proposalDate |-> strftime(today),
     effectiveDate |-> strftime(today),
     expiryDate |-> strftime(today + 366),
     dateStarted |-> strftime(today - 730),
     dateOfBirth |-> strftime(today - 730)]

\* _get_default_dates when datetime.now() falls on day `today`.
get_default_dates(today) ==
    [proposalDate |-> strftime(today),
     effectiveDate |-> strftime(today),
     expiryDate |-> strftime(today + 365),
     dateStarted |-> strftime(today - 730),
     dateOfBirth |-> strftime(today - 730)]

\* ------------------------------------------------------------ class data
ENDPOINTS == [create |-> "/api/ebaogi/api-orchestration/v1/flow/easypa_createOrSave",
              calculate |-> "/api/ebaogi/api-orchestration/v1/flow/easypa_calculate"]

DefaultConfig == [timeout_seconds |-> DefaultTimeoutSeconds,
                  max_retries |-> DefaultMaxRetries,
                  backoff_factor |-> DefaultBackoffFactor]

StatusForcelist == {429, 500, 502, 503, 504}
RetryAfterStatusCodes == {413, 429, 503}

required_fields == <<"customerName", "address1", "city", "state", "zipCode">>

NoSession == [id |-> 0, auth |-> "", total |-> 0]
NoResult == Dict({})

\* --------------------------------------------------------------- inputs
\* How a caller may give one request field: not at all, as "", or as a value.
FieldChoices == {"absent", "empty", "value"}
\* Every combination of absent and given fields, and every request that
\* gives one field as "" and the others as values.
Requests ==
    {r \in [Range(required_fields) -> FieldChoices] :
        \/ \A f \in Range(required_fields) : r[f] # "empty"
        \/ /\ Cardinality({f \in Range(required_fields) : r[f] = "empty"}) = 1
           /\ \A f \in Range(required_fields) : r[f] # "absent"}

\* The value a caller gives a field; state and ZIP code are spelled out
\* character by character.
FieldValue(f) ==
    CASE f = "customerName" -> <<"Sweet Dreams Bakery LLC">>
      [] f = "address1" -> <<"123 Main Street">>
      [] f = "city" -> <<"Houston">>
      [] f = "state" -> <<"T", "X">>
      [] f = "zipCode" -> <<"7", "7", "0", "0", "1">>

\* The **kwargs dict of a call, after api_token / base_url were popped.
KwargsOf(req) ==
    Dict({<<f, IF req[f] = "empty" THEN Str("") ELSE StrSeq(FieldValue(f))>> :
            f \in {g \in Range(required_fields) : req[g] # "absent"}})

\* A request whose state is a name and whose ZIP code has four digits.
AllGiven == [f \in Range(required_fields) |-> "value"]
OffPatternKwargs ==
    Dict({p \in KwargsOf(AllGiven).v : p[1] \notin {"state", "zipCode"}}
         \cup {<<"state", StrSeq(<<"T", "e", "x", "a", "s">>)>>,
               <<"zipCode", StrSeq(<<"7", "7", "0", "0">>)>>})

\* The calls made: the requests above, one fully given request whose
\* fullTimeEmpl is not a number, and the request off the schema's patterns.
CallKwargs ==
    {KwargsOf(r) : r \in Requests}
    \cup {Dict(KwargsOf(AllGiven).v \cup {<<"fullTimeEmpl", Str("many")>>})}
    \cup {OffPatternKwargs}

\* The optional request fields of the input schema and a value a caller
\* may supply for each.
OptionalFields ==
    <<"businessType", "naicsCode", "naicsDefinition", "legalStructure",
      "fullTimeEmpl", "partTimeEmpl", "buildingLimit", "bppLimit",
      "eachOccurrenceLimit", "generalAggregateLimit">>
OptionalValue(f) ==
    CASE f = "businessType" -> Str("Service")
      [] f = "naicsCode" -> Str("333316")
      [] f = "naicsDefinition" -> Str("Photographic Equipment Manufacturing")
      [] f = "legalStructure" -> Str("Corporation")
      [] f = "fullTimeEmpl" -> Num(12)
      [] f = "partTimeEmpl" -> Num(3)
      [] f = "buildingLimit" -> Num(750000)
      [] f = "bppLimit" -> Num(50000)
      [] f = "eachOccurrenceLimit" -> Str("5,000,000 CSL")
      [] f = "generalAggregateLimit" -> Str("10,000,000 CSL")

\* A request with the required fields and the optional fields `given`.
WithOptions(given) ==
    Dict(KwargsOf(AllGiven).v \cup {<<f, OptionalValue(f)>> : f \in given})

\* The requests the payload builder is called with directly: no optional
\* field, all of them, every other one, and a fullTimeEmpl that is not a
\* number.
BuilderKwargs ==
    { WithOptions({}),
      WithOptions(Range(OptionalFields)),
      WithOptions({OptionalFields[i] : i \in {1, 3, 5, 7, 9}}),
      Dict(KwargsOf(AllGiven).v \cup {<<"fullTimeEmpl", Str("many")>>}) }

\* api_token / base_url of a call and of the environment; "" is None / unset.
TokenOverrides == {"", "tokA"}
UrlOverrides == {"", "https://a.example"}
\* The environment: both variables unset, or both set; with or without the
\* requests package; close() of a session returns.
CredentialEnvs == {<<"", "">>, <<"tokE", "https://e.example">>}
Envs ==
    {[token |-> e[1], url |-> e[2], requests_installed |-> b,
      close_raises |-> FALSE] :
        e \in CredentialEnvs, b \in BOOLEAN}

\* The same environments, and those in which close() of a session raises.
LifecycleEnvs ==
    {[token |-> e[1], url |-> e[2], requests_installed |-> b,
      close_raises |-> c] :
        e \in CredentialEnvs, b \in BOOLEAN, c \in BOOLEAN}

\* The days the clock starts on: a leap day and a last day of the year.
StartDay == days_from_civil(2024, 2, 29)
StartDays == {StartDay, days_from_civil(2025, 12, 31)}
ClockDays == UNION {d .. (d + MaxTicks) : d \in StartDays}

\* config dictionaries a constructor may be given (None is the empty one).
ConfigOverrides ==
    { {},
      {<<"max_retries", DefaultMaxRetries + 1>>, <<"timeout_seconds", 5>>} }

\* --------------------------------------------------------- remote API
ProposalDoc ==
    Dict({<<"ProposalNo", Str("P0001")>>, <<"PolicyId", Num(77)>>,
          <<"PolicyLobList", List(<<Dict({<<"PolicyRiskList",
                List(<<Dict({<<"XGLPremium", Num(0)>>,
                             <<"XCFPremium", Num(0)>>})>>)>>})>>)>>})

\* 200 bodies of the create endpoint.
CreateBodies ==
    { ProposalDoc,
      Dict({<<"PolicyId", Num(77)>>}),
      Dict({<<"ProposalNo", Str("")>>, <<"PolicyId", Num(77)>>}),
      Dict({<<"ProposalNo", Null>>}),
      EmptyDict,
      List(<<Num(1)>>),
      Null,
      Malformed }

Risk(gl, cf) == Dict({<<"XGLPremium", Num(gl)>>, <<"XCFPremium", Num(cf)>>})
Lob(risks) == Dict({<<"PolicyRiskList", List(risks)>>})

\* 200 bodies of the calculate endpoint.
CalcBodies ==
    { Dict({<<"ProposalNo", Str("P0001")>>, <<"TotalPremium", Num(5234)>>,
            <<"PolicyLobList", List(<<Lob(<<Risk(2500, 2734)>>)>>)>>}),
      Dict({<<"ProposalNo", Str("P0002")>>, <<"TotalPremium", Num(100)>>,
            <<"GrossPremium", Num(90)>>,
            <<"PolicyLobList", List(<<Lob(<<Risk(1, 2), Risk(9, 9)>>),
                                      Lob(<<Risk(7, 8)>>)>>)>>}),
      Dict({<<"TotalPremium", Num(10)>>,
            <<"PolicyLobList", List(<<Lob(<<Dict({<<"XGLPremium", Num(4)>>})>>)>>)>>}),
      Dict({<<"TotalPremium", Num(10)>>}),
      Dict({<<"TotalPremium", Num(10)>>, <<"PolicyLobList", EmptyList>>}),
      Dict({<<"TotalPremium", Num(10)>>, <<"PolicyLobList", List(<<EmptyDict>>)>>}),
      Dict({<<"TotalPremium", Num(10)>>, <<"PolicyLobList", List(<<Num(5)>>)>>}),
      Dict({<<"TotalPremium", Num(10)>>, <<"PolicyLobList", Lob(<<Risk(1, 2)>>)>>}),
      Dict({<<"TotalPremium", Num(10)>>,
            <<"PolicyLobList", List(<<Lob(<<Num(3)>>)>>)>>}),
      Dict({<<"TotalPremium", Num(10)>>,
            <<"PolicyLobList", List(<<Dict({<<"PolicyRiskList", Risk(1, 2)>>})>>)>>}),
      EmptyDict,
      List(<<Num(1)>>),
      Malformed }

ErrorStatuses == {400, 413, 503}
ErrorText == Str("upstream says no")

\* What one HTTP attempt can end in: a transport failure or a response.
\* A response may carry a Retry-After header.
TransportError ==
    [kind |-> "error", status |-> 0, body |-> Null, retry_after |-> FALSE]
Response(status, body) ==
    [kind |-> "resp", status |-> status, body |-> body, retry_after |-> FALSE]
ResponseRetryAfter(status, body) ==
    [kind |-> "resp", status |-> status, body |-> body, retry_after |-> TRUE]
ErrorResponses ==
    {Response(s, ErrorText) : s \in ErrorStatuses}
        \cup {ResponseRetryAfter(413, ErrorText)}
CreateOutcomes ==
    {TransportError} \cup ErrorResponses
                     \cup {Response(200, b) : b \in CreateBodies}
CalcOutcomes ==
    {TransportError} \cup ErrorResponses
                     \cup {Response(200, b) : b \in CalcBodies}

\* ------------------------------------------------------------- helpers
\* dict.update(override) on the config dictionary.
ConfigUpdate(cfg, override) ==
    [k \in DOMAIN cfg |->
        IF \E p \in override : p[1] = k
        THEN (CHOOSE p \in override : p[1] = k)[2]
        ELSE cfg[k]]

\* type(x).__name__ of a parsed JSON value.
TypeName(x) ==
    CASE x.t = "list" -> "list"
      [] x.t = "str" -> "str"
      [] x.t = "num" -> "int"
      [] x.t = "bool" -> "bool"
      [] x.t = "null" -> "NoneType"
      [] OTHER -> "dict"

\* str(e) of the AttributeError raised by x.get(...) on a non-dict x.
AttributeErrorText(x) ==
    StrSeq(<<"'", TypeName(x), "' object has no attribute 'get'">>)

create_error_response(error_message) ==
    Dict({<<"success", Bool(FALSE)>>,
          <<"error", error_message>>,
          <<"errorDetails", Dict({<<"type", Str("ProcessingError")>>,
                                  <<"message", error_message>>})>>})

\* requests.Session() mounted with Retry(total = config['max_retries'], ...)
\* and the Authorization header of the tool's token.
create_session(t, cfg, id) ==
    [id |-> id, auth |-> t.api_token, total |-> cfg.max_retries]

\* Mutation: a token the instance still holds is preferred to the
\* environment's.
initialize_keeps_token(t, api_token, base_url, id) ==
    IF t.initialized THEN [raised |-> FALSE, exc |-> "", msg |-> Null, tool |-> t]
    ELSE
      LET tok == IF api_token # "" THEN api_token
                 ELSE IF t.api_token # "" THEN t.api_token ELSE env.token
          url == IF base_url # "" THEN base_url ELSE env.url
          t1 == [t EXCEPT !.api_token = tok, !.base_url = url]
      IN IF tok = ""
         THEN [raised |-> TRUE, tool |-> t1, exc |-> "ValueError",
               msg |-> Str("API token required. Provide as parameter or set INSUREMO_API_TOKEN")]
         ELSE IF url = ""
         THEN [raised |-> TRUE, tool |-> t1, exc |-> "ValueError",
               msg |-> Str("Base URL required. Provide as parameter or set INSUREMO_BASE_URL")]
         ELSE IF ~env.requests_installed
         THEN [raised |-> TRUE, tool |-> t1, exc |-> "ImportError",
               msg |-> Str("requests package required. Install with: pip install requests")]
         ELSE [raised |-> FALSE, exc |-> "", msg |-> Null,
               tool |-> [t1 EXCEPT !.session = create_session(t1, config, id),
                                   !.initialized = TRUE]]

\* Mutation: _initialized is set before the session is created.
initialize_flag_first(t, api_token, base_url, id) ==
    IF t.initialized THEN [raised |-> FALSE, exc |-> "", msg |-> Null, tool |-> t]
    ELSE
      LET tok == IF api_token # "" THEN api_token ELSE env.token
          url == IF base_url # "" THEN base_url ELSE env.url
          t1 == [t EXCEPT !.api_token = tok, !.base_url = url]
      IN IF tok = ""
         THEN [raised |-> TRUE, tool |-> t1, exc |-> "ValueError",
               msg |-> Str("API token required. Provide as parameter or set INSUREMO_API_TOKEN")]
         ELSE IF url = ""
         THEN [raised |-> TRUE, tool |-> t1, exc |-> "ValueError",
               msg |-> Str("Base URL required. Provide as parameter or set INSUREMO_BASE_URL")]
         ELSE IF ~env.requests_installed
         THEN [raised |-> TRUE, exc |-> "ImportError",
               tool |-> [t1 EXCEPT !.initialized = TRUE],
               msg |-> Str("requests package required. Install with: pip install requests")]
         ELSE [raised |-> FALSE, exc |-> "", msg |-> Null,
               tool |-> [t1 EXCEPT !.session = create_session(t1, config, id),
                                   !.initialized = TRUE]]

\* _initialize: the outcome is the tool afterwards and, when it raised,
\* the text of the exception.
initialize(t, api_token, base_url, id) ==
    IF t.initialized THEN [raised |-> FALSE, exc |-> "", msg |-> Null, tool |-> t]
    ELSE
      LET tok == IF api_token # "" THEN api_token ELSE env.token
          url == IF base_url # "" THEN base_url ELSE env.url
          t1 == [t EXCEPT !.api_token = tok, !.base_url = url]
      IN IF tok = ""
         THEN [raised |-> TRUE, tool |-> t1, exc |-> "ValueError",
               msg |-> Str("API token required. Provide as parameter or set INSUREMO_API_TOKEN")]
         ELSE IF url = ""
         THEN [raised |-> TRUE, tool |-> t1, exc |-> "ValueError",
               msg |-> Str("Base URL required. Provide as parameter or set INSUREMO_BASE_URL")]
         ELSE IF ~env.requests_installed
         THEN [raised |-> TRUE, tool |-> t1, exc |-> "ImportError",
               msg |-> Str("requests package required. Install with: pip install requests")]
         ELSE [raised |-> FALSE, exc |-> "", msg |-> Null,
               tool |-> [t1 EXCEPT !.session = create_session(t1, config, id),
                                   !.initialized = TRUE]]

\* Mutation: no finally clause, session and flag are reset after the try.
cleanup_no_finally(t) ==
    IF t.session.id # 0 /\ ~env.close_raises
    THEN [t EXCEPT !.session = NoSession, !.initialized = FALSE]
    ELSE t

\* _cleanup on the tool: the tool afterwards. An exception of close() is
\* caught and logged, and the finally clause resets session and flag.
cleanup(t) ==
    IF t.session.id # 0
    THEN [t EXCEPT !.session = NoSession, !.initialized = FALSE]
    ELSE t

\* Mutation: the session is dropped without close().
cleanup_closed_no_close(t, cl) == cl

\* _cleanup on the sessions: close() is called on the tool's session.
cleanup_closed(t, cl) ==
    IF t.session.id # 0
    THEN [cl EXCEPT ![t.session.id] = @ + 1]
    ELSE cl

\* [f for f in required_fields if not kwargs.get(f)]
missing_fields(kw) ==
    SelectSeq(required_fields, LAMBDA f : Falsy(Get(kw, f, Null)))

MissingFieldsText(missing) ==
    StrSeq(<<"Missing required fields: ">> \o Join(missing))

\* The int(...) conversions of _build_risk_section and
\* _build_building_coverage raise on a value that is not a number.
payload_raises(kw) ==
    \/ int_raises(Get(kw, "fullTimeEmpl", Num(5)))
    \/ int_raises(Get(kw, "partTimeEmpl", Num(0)))
    \/ int_raises(Get(kw, "buildingLimit", Num(500000)))
    \/ int_raises(Get(kw, "bppLimit", Num(100000)))

\* The documents below keep every field that a request or the clock sets and
\* the ProductElementCode of each section; the other literals of the source
\* are the same in every document.
build_gl_classification ==
    Dict({<<"XClassCode", Str("10100")>>,
          <<"ProductElementCode",
            Str("MASTERGENLIA01BASELAYERLOCATIONGLCLASSIFICATION")>>})

\* Mutation: the building limit of the request is not looked at.
build_building_coverage_default_limit(kw) ==
    Dict({<<"PolicyCoverageList", List(<<
              Dict({<<"XBldgCovLimit", Num(500000)>>,
                    <<"ProductElementCode",
                      Str("MASTERGENLIA01BASELAYERLOCATIONCFBUILDINGBUILDINGCOVERAGE")>>}),
              Dict({<<"XBPPCovLimit",
                      int_value(Get(kw, "bppLimit", Num(100000)))>>,
                    <<"ProductElementCode",
                      Str("MASTERGENLIA01BASELAYERLOCATIONCFBUILDINGBPPCOVERAGE")>>}),
              Dict({<<"XBICCovLimit", Num(200000)>>,
                    <<"ProductElementCode",
                      Str("MASTERGENLIA01BASELAYERLOCATIONCFBUILDINGBIC")>>}),
              Dict({<<"XSCDeductible", Num(500)>>,
                    <<"ProductElementCode",
                      Str("MASTERGENLIA01BASELAYERLOCATIONCFBUILDINGSPOILAGECOVERAGE")>>})
          >>)>>,
          <<"ProductElementCode", Str("MASTERGENLIA01BASELAYERLOCATIONCFBUILDING")>>})

build_building_coverage(kw) ==
    Dict({<<"PolicyCoverageList", List(<<
              Dict({<<"XBldgCovLimit",
                      int_value(Get(kw, "buildingLimit", Num(500000)))>>,
                    <<"ProductElementCode",
                      Str("MASTERGENLIA01BASELAYERLOCATIONCFBUILDINGBUILDINGCOVERAGE")>>}),
              Dict({<<"XBPPCovLimit",
                      int_value(Get(kw, "bppLimit", Num(100000)))>>,
                    <<"ProductElementCode",
                      Str("MASTERGENLIA01BASELAYERLOCATIONCFBUILDINGBPPCOVERAGE")>>}),
              Dict({<<"XBICCovLimit", Num(200000)>>,
                    <<"ProductElementCode",
                      Str("MASTERGENLIA01BASELAYERLOCATIONCFBUILDINGBIC")>>}),
              Dict({<<"XSCDeductible", Num(500)>>,
                    <<"ProductElementCode",
                      Str("MASTERGENLIA01BASELAYERLOCATIONCFBUILDINGSPOILAGECOVERAGE")>>})
          >>)>>,
          <<"ProductElementCode", Str("MASTERGENLIA01BASELAYERLOCATIONCFBUILDING")>>})

build_risk_section(kw) ==
    Dict({<<"XGLPremium", Num(0)>>,
          <<"XCFPremium", Num(0)>>,
          <<"XAddress1", Get(kw, "address1", Str(""))>>,
          <<"XCity", Get(kw, "city", Str(""))>>,
          <<"XState", Get(kw, "state", Str(""))>>,
          <<"XZipCode", Get(kw, "zipCode", Str(""))>>,
          <<"XFullTimeEmpl", int_value(Get(kw, "fullTimeEmpl", Num(5)))>>,
          <<"XPartTimeEmpl", int_value(Get(kw, "partTimeEmpl", Num(0)))>>,
          <<"PolicyRiskList", List(<<build_gl_classification,
                                     build_building_coverage(kw)>>)>>,
          <<"ProductElementCode", Str("MASTERGENLIA01BASELAYERLOCATION")>>})

\* _build_lob_section; `today` is the day its own datetime.now() falls on.
build_lob_section(kw, today) ==
    Dict({<<"XEachOccurrenceLimit",
            Get(kw, "eachOccurrenceLimit", Str("1,000,000 CSL"))>>,
          <<"XGeneralAggregateLimit",
            Get(kw, "generalAggregateLimit", Str("2,000,000 CSL"))>>,
          <<"XProdsCompldOpsAggregateLimit",
            Get(kw, "generalAggregateLimit", Str("2,000,000 CSL"))>>,
          <<"XNAICSCode", Get(kw, "naicsCode", Str("311811"))>>,
          <<"XNAICSDefinition", Get(kw, "naicsDefinition", Str("Retail Bakeries"))>>,
          <<"XLegalStructure", Get(kw, "legalStructure", Str("LLC"))>>,
          <<"XBusinessType", Get(kw, "businessType", Str("Retail"))>>,
          <<"XDateStarted", get_default_dates(today).dateStarted>>,
          <<"PolicyRiskList", List(<<build_risk_section(kw)>>)>>,
          <<"ProductElementCode", Str("X_CO_US_USCGLPP8")>>})

\* Mutation: the agent code is taken from the instance's credentials.
build_policy_payload_agent_of_token(kw, today, later) ==
    LET dates == get_default_dates(today) IN
    Dict({<<"ProductCode", Str("X_CO_US_USCGLPP8")>>,
          <<"AgentCode", Str(tool.api_token)>>,
          <<"ProposalDate", dates.proposalDate>>,
          <<"EffectiveDate", dates.effectiveDate>>,
          <<"ExpiryDate", dates.expiryDate>>,
          <<"PolicyCustomerList", List(<<Dict({
                <<"CustomerName", Get(kw, "customerName", Str(""))>>,
                <<"CustomerNo", Get(kw, "customerNo", Str("CO00000001"))>>,
                <<"DateOfBirth", dates.dateOfBirth>>,
                <<"IdNo", Get(kw, "idNo", Str("01010101"))>>,
                <<"PostCode", Get(kw, "postCode", Get(kw, "zipCode", Str("")))>>,
                <<"State", Get(kw, "state", Str(""))>>})>>)>>,
          <<"PolicyLobList", List(<<build_lob_section(kw, later)>>)>>})

\* _build_policy_payload; `today` is the day the datetime.now() of line 494
\* falls on, `later` the day the one of _build_lob_section falls on.
build_policy_payload(kw, today, later) ==
    LET dates == get_default_dates(today) IN
    Dict({<<"ProductCode", Str("X_CO_US_USCGLPP8")>>,
          <<"AgentCode", Str("PTY10000039468001")>>,
          <<"ProposalDate", dates.proposalDate>>,
          <<"EffectiveDate", dates.effectiveDate>>,
          <<"ExpiryDate", dates.expiryDate>>,
          <<"PolicyCustomerList", List(<<Dict({
                <<"CustomerName", Get(kw, "customerName", Str(""))>>,
                <<"CustomerNo", Get(kw, "customerNo", Str("CO00000001"))>>,
                <<"DateOfBirth", dates.dateOfBirth>>,
                <<"IdNo", Get(kw, "idNo", Str("01010101"))>>,
                <<"PostCode", Get(kw, "postCode", Get(kw, "zipCode", Str("")))>>,
                <<"State", Get(kw, "state", Str(""))>>})>>)>>,
          <<"PolicyLobList", List(<<build_lob_section(kw, later)>>)>>})

\* Mutation: no status_forcelist, only transport failures are retried.
IsRetry_no_forcelist(outcome) == outcome.kind = "error"

\* urllib3's Retry as mounted by _create_session: a transport failure or a
\* status of the forcelist is retried while the budget lasts, for POST too;
\* and, respect_retry_after_header being left at its default, so is a 413,
\* 429 or 503 that carries a Retry-After header.
IsRetry(outcome) ==
    \/ outcome.kind = "error"
    \/ outcome.status \in StatusForcelist
    \/ outcome.retry_after /\ outcome.status \in RetryAfterStatusCodes

\* What session.post hands back once the retrying is over: the response, or
\* an exception when the last attempt was a transport failure or a status
\* of the forcelist and the budget is spent.
PostRaises(outcome) ==
    \/ outcome.kind = "error"
    \/ outcome.status \in StatusForcelist

\* _create_policy / _calculate_premium after the POST: None for an
\* exception, for a status other than 200 and for a body json() rejects.
parse_response(outcome) ==
    IF PostRaises(outcome) THEN Null
    ELSE IF outcome.status # 200 THEN Null
    ELSE IF outcome.body = Malformed THEN Null
    ELSE outcome.body

create_policy(outcome) == parse_response(outcome)

\* _create_policy when building the payload raised: the except clause.
create_policy_raised == Null

\* Mutation: the status of the calculate response is not looked at.
calculate_premium_any_status(outcome) ==
    IF PostRaises(outcome) THEN Null
    ELSE IF outcome.body = Malformed THEN Null
    ELSE outcome.body

calculate_premium(outcome) == parse_response(outcome)

BreakdownDefaults == [gl |-> Num(0), prop |-> Num(0)]

\* Mutation: the last risk entry is read instead of the first.
extract_premium_breakdown_last_risk(policy_data) ==
    LET lob_list == Get(policy_data, "PolicyLobList", EmptyList) IN
    IF Falsy(lob_list) THEN BreakdownDefaults
    ELSE IF lob_list.t # "list" THEN BreakdownDefaults
    ELSE LET lob == lob_list.v[1] IN
    IF lob.t # "dict" THEN BreakdownDefaults
    ELSE LET risk_list == Get(lob, "PolicyRiskList", EmptyList) IN
    IF Falsy(risk_list) THEN BreakdownDefaults
    ELSE IF risk_list.t # "list" THEN BreakdownDefaults
    ELSE LET location == risk_list.v[Len(risk_list.v)] IN
    IF location.t # "dict" THEN BreakdownDefaults
    ELSE [gl |-> Get(location, "XGLPremium", Num(0)),
          prop |-> Get(location, "XCFPremium", Num(0))]

\* The try block of _extract_premium_breakdown: glPremium and
\* propertyPremium, left at 0 when a step raises.
extract_premium_breakdown(policy_data) ==
    LET lob_list == Get(policy_data, "PolicyLobList", EmptyList) IN
    IF Falsy(lob_list) THEN BreakdownDefaults
    ELSE IF lob_list.t # "list" THEN BreakdownDefaults
    ELSE LET lob == lob_list.v[1] IN
    IF lob.t # "dict" THEN BreakdownDefaults
    ELSE LET risk_list == Get(lob, "PolicyRiskList", EmptyList) IN
    IF Falsy(risk_list) THEN BreakdownDefaults
    ELSE IF risk_list.t # "list" THEN BreakdownDefaults
    ELSE LET location == risk_list.v[1] IN
    IF location.t # "dict" THEN BreakdownDefaults
    ELSE [gl |-> Get(location, "XGLPremium", Num(0)),
          prop |-> Get(location, "XCFPremium", Num(0))]

premium_breakdown(policy_data) ==
    LET b == extract_premium_breakdown(policy_data) IN
    Dict({<<"totalPremium", Get(policy_data, "TotalPremium", Num(0))>>,
          <<"grossPremium", Get(policy_data, "GrossPremium", Num(0))>>,
          <<"glPremium", b.gl>>,
          <<"propertyPremium", b.prop>>,
          <<"buildingPremium", Num(0)>>,
          <<"bppPremium", Num(0)>>,
          <<"biPremium", Num(0)>>})

create_success_response(calculated_data) ==
    LET pb == premium_breakdown(calculated_data) IN
    Dict({<<"success", Bool(TRUE)>>,
          <<"proposalNo", Get(calculated_data, "ProposalNo", Null)>>,
          <<"policyId", Get(calculated_data, "PolicyId", Null)>>,
          <<"totalPremium", Get(calculated_data, "TotalPremium", Num(0))>>,
          <<"grossPremium", Get(calculated_data, "GrossPremium", Num(0))>>,
          <<"commission", Get(calculated_data, "Commission", Num(0))>>,
          <<"commissionRate", Get(calculated_data, "CommissionRate", Num(0))>>,
          <<"glPremium", Get(pb, "glPremium", Null)>>,
          <<"propertyPremium", Get(pb, "propertyPremium", Null)>>,
          <<"effectiveDate", Get(calculated_data, "EffectiveDate", Null)>>,
          <<"expiryDate", Get(calculated_data, "ExpiryDate", Null)>>,
          <<"premiumBreakdown", pb>>})

\* POST of _create_policy: the payload built from the request.
create_request(t, doc) ==
    [ep |-> "create", base |-> t.base_url, path |-> ENDPOINTS.create,
     auth |-> t.session.auth, timeout |-> config.timeout_seconds,
     body |-> doc]

\* Mutation: the calculate POST sends the document built from the request.
calculate_request_sends_payload(t, policy_data) ==
    [ep |-> "calculate", base |-> t.base_url, path |-> ENDPOINTS.calculate,
     auth |-> t.session.auth, timeout |-> config.timeout_seconds,
     body |-> payload]

\* POST of _calculate_premium: the policy_data it was given.
calculate_request(t, policy_data) ==
    [ep |-> "calculate", base |-> t.base_url, path |-> ENDPOINTS.calculate,
     auth |-> t.session.auth, timeout |-> config.timeout_seconds,
     body |-> policy_data]

\* Mutation: `except ValueError`, as if only _initialize could raise.
Caught_only_ValueError(excType) == excType = "ValueError"

\* `except Exception` of run_sync: the exception types it catches.
Caught(excType) ==
    excType \in {"ValueError", "ImportError", "AttributeError"}

NoOutcome ==
    [kind |-> "none", status |-> 0, body |-> Null, retry_after |-> FALSE]
NoBuild == <<>>
NoArgs == [api_token |-> "", base_url |-> "", sessions |-> 0]

\* The instance __init__ leaves; config_arg is the argument it was given.
FreshTool == [api_token |-> "", base_url |-> "", session |-> NoSession,
              initialized |-> FALSE, config_arg |-> {}]

\* ------------------------------------------------------------ behaviour
Init ==
    /\ env \in Envs
    /\ config = DefaultConfig
    /\ tool = FreshTool
    /\ closed = <<>>
    /\ pc = "idle"
    /\ kwargs = EmptyDict
    /\ payload = Null
    /\ retries = 0
    /\ calls = <<>>
    /\ created_data = Null
    /\ result = NoResult
    /\ propagated = ""
    /\ create_out = NoOutcome
    /\ calc_out = NoOutcome
    /\ only503 = TRUE
    /\ last = NoOutcome
    /\ call_args = NoArgs
    /\ runs = 0
    /\ now = StartDay
    /\ built = NoBuild

\* InsuremoRateTool(config): a new instance takes the place of the old one,
\* whose destructor runs _cleanup.
Construct(override) ==
    /\ pc = "idle"
    /\ config' = IF override # {} THEN ConfigUpdate(config, override) ELSE config
    /\ tool' = [FreshTool EXCEPT !.config_arg = override]
    /\ closed' = cleanup_closed(tool, closed)
    /\ UNCHANGED <<env, pc, kwargs, call_args, payload, retries, calls,
                   created_data,
                   result, propagated, create_out, calc_out, only503, last,
                   runs,
                   now, built>>

\* The finally block of run_sync, entered with tool t and sessions cl.
Finally(t, cl) ==
    /\ tool' = cleanup(t)
    /\ closed' = cleanup_closed(t, cl)
    /\ pc' = "done"

\* How a step of run_sync ends: it returns a value, raises, or goes on.
Returns(value) == [k |-> "return", exc |-> "", v |-> value]
Raises(excType, msg) == [k |-> "raise", exc |-> excType, v |-> msg]
Continues == [k |-> "continue", exc |-> "", v |-> Null]

\* run_sync between _initialize and the create POST.
after_initialize(ini, kw) ==
    IF ini.raised THEN Raises(ini.exc, ini.msg)
    ELSE IF missing_fields(kw) # <<>>
    THEN Returns(create_error_response(MissingFieldsText(missing_fields(kw))))
    ELSE Continues

\* run_sync between the create POST and the calculate POST.
after_create(cd) ==
    IF Falsy(cd)
    THEN Returns(create_error_response(Str("Failed to create policy")))
    ELSE IF cd.t # "dict"
    THEN Raises("AttributeError", AttributeErrorText(cd))
    ELSE IF Falsy(Get(cd, "ProposalNo", Null))
    THEN Returns(create_error_response(
                    Str("No proposal number returned from create API")))
    ELSE Continues

\* run_sync after the calculate POST.
after_calculate(calculated_data) ==
    IF Falsy(calculated_data)
    THEN Returns(create_error_response(Str("Failed to calculate premium")))
    ELSE IF calculated_data.t # "dict"
    THEN Raises("AttributeError", AttributeErrorText(calculated_data))
    ELSE Returns(create_success_response(calculated_data))

\* What the caller of run_sync gets from a step that ends the call: the
\* returned value, the error response of the except clause, or nothing when
\* the exception escapes.
run_sync_result(step) ==
    IF step.k = "return" THEN step.v
    ELSE IF Caught(step.exc) THEN create_error_response(step.v)
    ELSE NoResult

run_sync_propagated(step) ==
    IF step.k = "raise" /\ ~Caught(step.exc) THEN step.exc ELSE ""

Leave(step) ==
    /\ result' = run_sync_result(step)
    /\ propagated' = run_sync_propagated(step)

\* run_sync up to the first POST: credentials popped, _initialize, the
\* required-field check, and the payload of _create_policy; when building
\* the payload raises, _create_policy returns None without a POST. The
\* clock is read twice while the payload is built and stands on day `later`
\* at the second reading.
RunSyncBegin(kw, api_token, base_url, later) ==
    /\ pc = "idle"
    /\ runs < MaxRuns
    /\ later \in {now, now + 1}
    /\ LET id == Len(closed) + 1
           ini == initialize(tool, api_token, base_url, id)
           cl == IF ini.tool.session.id = id THEN Append(closed, 0) ELSE closed
           step == after_initialize(ini, kw)
       IN /\ runs' = runs + 1
          /\ kwargs' = kw
          /\ UNCHANGED <<calls, created_data, create_out, calc_out, only503, last>>
          /\ call_args' = [api_token |-> api_token, base_url |-> base_url,
                           sessions |-> Len(closed)]
          /\ IF step.k = "continue" /\ ~payload_raises(kw)
             THEN /\ tool' = ini.tool
                  /\ closed' = cl
                  /\ payload' = build_policy_payload(kw, now, later)
                  /\ now' = later
                  /\ retries' = ini.tool.session.total
                  /\ pc' = "create"
                  /\ UNCHANGED <<result, propagated>>
             ELSE IF step.k = "continue"
             THEN /\ Leave(after_create(create_policy_raised))
                  /\ Finally(ini.tool, cl)
                  /\ now' = later
                  /\ UNCHANGED <<payload, retries>>
             ELSE /\ Leave(step)
                  /\ Finally(ini.tool, cl)
                  /\ later = now
                  /\ UNCHANGED <<payload, retries, now>>
    /\ UNCHANGED <<env, config, built>>

\* One attempt of the create POST, and, when the POST is over, run_sync up
\* to the calculate POST or to its return.
CreateAttempt(outcome) ==
    /\ pc = "create"
    /\ calls' = Append(calls, create_request(tool, payload))
    /\ only503' = (only503 /\ outcome.status = 503)
    /\ last' = outcome
    /\ IF IsRetry(outcome) /\ retries > 0
       THEN /\ retries' = retries - 1
            /\ UNCHANGED <<tool, closed, pc, created_data, result, propagated,
                           create_out>>
       ELSE LET cd == create_policy(outcome)
                step == after_create(cd)
            IN /\ create_out' = outcome
               /\ created_data' = cd
               /\ IF step.k = "continue"
                  THEN /\ pc' = "calculate"
                       /\ retries' = tool.session.total
                       /\ UNCHANGED <<tool, closed, result, propagated>>
                  ELSE /\ Leave(step)
                       /\ Finally(tool, closed)
                       /\ UNCHANGED retries
    /\ UNCHANGED <<env, config, kwargs, call_args, payload, calc_out, runs,
                   now, built>>

\* One attempt of the calculate POST, and, when the POST is over, the rest
\* of run_sync.
CalcAttempt(outcome) ==
    /\ pc = "calculate"
    /\ calls' = Append(calls, calculate_request(tool, created_data))
    /\ IF IsRetry(outcome) /\ retries > 0
       THEN /\ retries' = retries - 1
            /\ UNCHANGED <<tool, closed, pc, result, propagated, calc_out>>
       ELSE /\ calc_out' = outcome
            /\ Leave(after_calculate(calculate_premium(outcome)))
            /\ Finally(tool, closed)
            /\ UNCHANGED retries
    /\ UNCHANGED <<env, config, kwargs, call_args, payload, created_data,
                   create_out,
                   only503, runs, now, built>>
    /\ last' = outcome

\* run_sync has returned (or let an exception escape): its frame, with the
\* request, the documents and the value handed to the caller, is gone; the
\* instance, the class config and the environment stay.
RunSyncReturn ==
    /\ pc = "done"
    /\ pc' = "idle"
    /\ kwargs' = EmptyDict
    /\ payload' = Null
    /\ retries' = 0
    /\ calls' = <<>>
    /\ created_data' = Null
    /\ result' = NoResult
    /\ propagated' = ""
    /\ create_out' = NoOutcome
    /\ calc_out' = NoOutcome
    /\ only503' = TRUE
    /\ last' = NoOutcome
    /\ call_args' = NoArgs
    /\ UNCHANGED <<env, config, tool, closed, runs, now, built>>

\* The clock passes midnight.
Tick ==
    /\ now + 1 \in ClockDays
    /\ now' = now + 1
    /\ UNCHANGED <<env, config, tool, closed, pc, kwargs, call_args, payload,
                   retries,
                   calls, created_data, result, propagated, create_out,
                   calc_out, only503, last,
                   runs, built>>

\* tool._initialize(api_token, base_url) called on its own; an exception it
\* raises goes to its caller.
Initialize(api_token, base_url) ==
    /\ pc = "idle"
    /\ Len(closed) < MaxSessions
    /\ LET id == Len(closed) + 1
           ini == initialize(tool, api_token, base_url, id)
       IN /\ tool' = ini.tool
          /\ closed' = IF ini.tool.session.id = id THEN Append(closed, 0)
                       ELSE closed
    /\ UNCHANGED <<env, config, pc, kwargs, call_args, payload, retries, calls,
                   created_data, result, propagated, create_out, calc_out,
                   only503, last,
                   runs, now, built>>

\* tool._cleanup() called on its own, as __exit__ and __del__ do.
Cleanup ==
    /\ pc = "idle"
    /\ tool' = cleanup(tool)
    /\ closed' = cleanup_closed(tool, closed)
    /\ UNCHANGED <<env, config, pc, kwargs, call_args, payload, retries, calls,
                   created_data, result, propagated, create_out, calc_out,
                   only503, last,
                   runs, now, built>>

\* tool._build_policy_payload(**kw) called on its own; the clock stands on
\* day `later` at the second reading. When an int() conversion raises, no
\* document is built.
Build(kw, later) ==
    /\ pc = "idle"
    /\ later \in {now, now + 1}
    /\ now' = later
    /\ kwargs' = kw
    /\ IF payload_raises(kw)
       THEN /\ payload' = Null
            /\ UNCHANGED built
       ELSE LET doc == build_policy_payload(kw, now, later)
                b == [kwargs |-> kw, today |-> now, later |-> later,
                      doc |-> doc, api_token |-> tool.api_token]
            IN /\ payload' = doc
               /\ built' = IF built = NoBuild THEN <<b>> ELSE <<built[1], b>>
    /\ UNCHANGED <<env, config, tool, closed, pc, call_args, retries, calls,
                   created_data, result, propagated, create_out, calc_out,
                   only503, last,
                   runs>>

Next ==
    \/ RunSyncReturn
    \/ \E override \in ConfigOverrides : Construct(override)
    \/ \E kw \in CallKwargs, api_token \in TokenOverrides, base_url \in UrlOverrides,
          later \in ClockDays :
          RunSyncBegin(kw, api_token, base_url, later)
    \/ \E outcome \in CreateOutcomes : CreateAttempt(outcome)
    \/ \E outcome \in CalcOutcomes : CalcAttempt(outcome)

Spec == Init /\ [][Next]_vars

\* The life cycle of the session: besides run_sync, _initialize and _cleanup
\* (the body of __exit__ and __del__) are called on their own, and close()
\* may raise. The requests and the answers are a few of each kind.
LifecycleInit ==
    /\ env \in LifecycleEnvs
    /\ config = DefaultConfig
    /\ tool = FreshTool
    /\ closed = <<>>
    /\ pc = "idle"
    /\ kwargs = EmptyDict
    /\ payload = Null
    /\ retries = 0
    /\ calls = <<>>
    /\ created_data = Null
    /\ result = NoResult
    /\ propagated = ""
    /\ create_out = NoOutcome
    /\ calc_out = NoOutcome
    /\ only503 = TRUE
    /\ last = NoOutcome
    /\ call_args = NoArgs
    /\ runs = 0
    /\ now = StartDay
    /\ built = NoBuild

LifecycleKwargs ==
    { KwargsOf(AllGiven),
      KwargsOf([AllGiven EXCEPT !["city"] = "absent"]),
      Dict(KwargsOf(AllGiven).v \cup {<<"fullTimeEmpl", Str("many")>>}) }

LifecycleCreateOutcomes ==
    {TransportError, Response(400, ErrorText), Response(200, ProposalDoc),
     Response(200, List(<<Num(1)>>))}

LifecycleCalcOutcomes ==
    {Response(503, ErrorText), Response(200, List(<<Num(1)>>)),
     Response(200, Dict({<<"ProposalNo", Str("P0001")>>,
                         <<"TotalPremium", Num(5234)>>}))}

LifecycleNext ==
    \/ RunSyncReturn
    \/ Cleanup
    \/ \E override \in ConfigOverrides : Construct(override)
    \/ \E api_token \in TokenOverrides, base_url \in UrlOverrides :
          Initialize(api_token, base_url)
    \/ \E kw \in LifecycleKwargs, api_token \in TokenOverrides,
          base_url \in UrlOverrides, later \in ClockDays :
          RunSyncBegin(kw, api_token, base_url, later)
    \/ \E outcome \in LifecycleCreateOutcomes : CreateAttempt(outcome)
    \/ \E outcome \in LifecycleCalcOutcomes : CalcAttempt(outcome)

LifecycleSpec == LifecycleInit /\ [][LifecycleNext]_vars

\* The credentials an instance is initialized with before it builds.
BuilderCredentials == {<<"tokA", "https://a.example">>}

\* The payload builder on its own: instances are constructed and
\* initialized with different credentials, the clock moves, and
\* _build_policy_payload is called directly.
BuilderInit ==
    /\ env = [token |-> "tokE", url |-> "https://e.example",
              requests_installed |-> TRUE, close_raises |-> FALSE]
    /\ config = DefaultConfig
    /\ tool = FreshTool
    /\ closed = <<>>
    /\ pc = "idle"
    /\ kwargs = EmptyDict
    /\ payload = Null
    /\ retries = 0
    /\ calls = <<>>
    /\ created_data = Null
    /\ result = NoResult
    /\ propagated = ""
    /\ create_out = NoOutcome
    /\ calc_out = NoOutcome
    /\ only503 = TRUE
    /\ last = NoOutcome
    /\ call_args = NoArgs
    /\ runs = 0
    /\ now \in StartDays
    /\ built = NoBuild

BuilderNext ==
    \/ Tick
    \/ \E override \in ConfigOverrides : Construct(override)
    \/ \E c \in BuilderCredentials : Initialize(c[1], c[2])
    \/ \E kw \in BuilderKwargs, later \in ClockDays : Build(kw, later)

BuilderSpec == BuilderInit /\ [][BuilderNext]_vars

TypeOK ==
    /\ pc \in {"idle", "create", "calculate", "done"}
    /\ runs \in 0..MaxRuns
    /\ now \in ClockDays
    /\ call_args \in [api_token : TokenOverrides, base_url : UrlOverrides,
                     sessions : 0..(MaxRuns + MaxSessions)]
    /\ retries \in 0..(DefaultMaxRetries + 1)

\* ------------------------------------------------- vocabulary of the claims
\* A run_sync call has just ended.
Returned == pc = "done"

Failed == Get(result, "success", Null) = Bool(FALSE)
Succeeded == Get(result, "success", Null) = Bool(TRUE)
ErrorOf(r) == Get(r, "error", Null)

CreateCalls == {i \in 1..Len(calls) : calls[i].ep = "create"}
CalcCalls == {i \in 1..Len(calls) : calls[i].ep = "calculate"}

\* Required fields the request does not give at all.
AbsentFields(kw) == {f \in Range(required_fields) : ~HasKey(kw, f)}

\* The failure kinds of the error taxonomy, as the returned result shows them.
IsValidationError(r) ==
    /\ ErrorOf(r).t = "str"
    /\ Len(ErrorOf(r).v) >= 1
    /\ ErrorOf(r).v[1] = "Missing required fields: "
ListedFields(r) == Range(ErrorOf(r).v) \cap Range(required_fields)
IsMissingProposalNumber(r) ==
    ErrorOf(r) = Str("No proposal number returned from create API")
IsCalculationFailed(r) == ErrorOf(r) = Str("Failed to calculate premium")
IsCreateFailed(r) == ErrorOf(r) = Str("Failed to create policy")

IsHttpFailure(out) == out.kind = "resp" /\ out.status # 200
IsTransportFailure(out) == out.kind = "error"
Is200(out) == out.kind = "resp" /\ out.status = 200

\* C1: a request missing a required field gets success:false with the
\* missing-fields message naming exactly the missing fields, and nothing is
\* POSTed, whatever the credentials are.
C1_MissingFieldsReported ==
    (Returned /\ AbsentFields(kwargs) # {}) =>
        /\ Failed
        /\ IsValidationError(result)
        /\ ListedFields(result) = AbsentFields(kwargs)
        /\ calls = <<>>

\* C2: a create response 200 whose JSON object has no ProposalNo, or an
\* empty one, ends the call with the missing-proposal-number failure and
\* without a calculate POST.
C2_MissingProposalNumber ==
    (/\ Returned
     /\ Is200(create_out)
     /\ create_out.body.t = "dict"
     /\ Falsy(Get(create_out.body, "ProposalNo", Null))) =>
        /\ Failed
        /\ IsMissingProposalNumber(result)
        /\ CalcCalls = {}

\* C3: a calculate POST is made only after the create POST of the same call
\* came back 200 with a non-empty ProposalNo, and its body is the document
\* create returned, not the one built from the request.
C3_CalculateAfterCreate ==
    \A i \in CalcCalls :
        /\ Is200(create_out)
        /\ create_out.body.t = "dict"
        /\ ~Falsy(Get(create_out.body, "ProposalNo", Null))
        /\ \E j \in CreateCalls : j < i
        /\ \A j \in CreateCalls : j < i
        /\ calls[i].body = create_out.body
        /\ \A j \in CreateCalls : calls[j].body = payload

C3_Witness ==
    /\ CalcCalls # {}
    /\ create_out.body # payload

\* C4: once run_sync has returned, every session created so far has been
\* closed and the tool holds no session.
C4_SessionClosed ==
    pc \in {"done", "idle"} =>
        /\ tool.session = NoSession
        /\ \A i \in 1..Len(closed) : closed[i] >= 1

C4_Witness ==
    /\ Returned
    /\ Len(closed) >= 1
    /\ Failed
    /\ IsValidationError(result)

ErrorShape(r) ==
    /\ Keys(r) = {"success", "error", "errorDetails"}
    /\ Get(r, "success", Null) = Bool(FALSE)
    /\ Get(r, "error", Null).t = "str"
    /\ Get(r, "errorDetails", Null).t = "dict"
    /\ Keys(Get(r, "errorDetails", Null)) = {"type", "message"}
    /\ Get(Get(r, "errorDetails", Null), "message", Null) = Get(r, "error", Null)

\* C5: every run_sync call that ends hands the caller a result, no
\* exception escapes, and a result that is not a success has the shape
\* {success:false, error, errorDetails:{type, message}}.
C5_NothingPropagates ==
    Returned =>
        /\ propagated = ""
        /\ result # NoResult
        /\ (~Succeeded => ErrorShape(result))

C5_Witness ==
    /\ Returned
    /\ Failed
    /\ Is200(calc_out)
    /\ calc_out.body.t = "list"

CreateAttempts == Cardinality(CreateCalls)

\* C6 as stated: a create call answered 503 on every attempt is attempted at
\* most 1 + 3 times, then run_sync fails without a calculate POST.
C6_RetriedUpTo3 ==
    /\ only503 => CreateAttempts <= 1 + DefaultMaxRetries
    /\ (Returned /\ only503 /\ CreateCalls # {}) =>
          /\ Failed
          /\ CalcCalls = {}

\* C6 amended: the number of retries is max_retries of the class config in
\* force when the call's session was made, 3 unless a constructor changed it.
C6_RetriedUpToMaxRetries ==
    /\ only503 => CreateAttempts <= 1 + config.max_retries
    /\ (Returned /\ only503 /\ CreateCalls # {}) =>
          /\ CreateAttempts = 1 + config.max_retries
          /\ Failed
          /\ CalcCalls = {}

C6_Witness ==
    /\ Returned
    /\ only503
    /\ config.max_retries = DefaultMaxRetries
    /\ CreateAttempts = 1 + DefaultMaxRetries

\* A value found in the result or in its errorDetails.
Carries(r, x) ==
    \E p \in r.v :
        \/ p[2] = x
        \/ (p[2].t = "dict" /\ \E q \in p[2].v : q[2] = x)

\* The POST whose failure ended the call.
FailedPost == IF calc_out # NoOutcome THEN calc_out ELSE create_out

\* What run_sync returns when the same POST ends in a transport failure.
TransportFailureResult ==
    IF calc_out # NoOutcome
    THEN run_sync_result(after_calculate(calculate_premium(TransportError)))
    ELSE run_sync_result(after_create(create_policy(TransportError)))

\* C7: a non-200 response from either endpoint gives a failure that carries
\* the status and the body of the response and that differs from the
\* failure a transport error gives.
C7_HttpErrorCarried ==
    (Returned /\ IsHttpFailure(FailedPost)) =>
        /\ Failed
        /\ Carries(result, Num(FailedPost.status))
        /\ Carries(result, FailedPost.body)
        /\ result # TransportFailureResult

\* C8: a calculate POST that fails, by status or by transport, ends the
\* call with the calculation failure; a success needs both POSTs answered
\* 200; and no create POST follows a calculate POST.
C8_CalculationFailed ==
    /\ (Returned /\ (IsHttpFailure(calc_out) \/ IsTransportFailure(calc_out))) =>
          /\ Failed
          /\ IsCalculationFailed(result)
    /\ (Returned /\ Succeeded) => (Is200(create_out) /\ Is200(calc_out))
    /\ \A i \in CreateCalls, j \in CalcCalls : i < j

C8_Witness ==
    /\ Returned
    /\ IsHttpFailure(calc_out)
    /\ IsCalculationFailed(result)

\* The first PolicyRiskList entry of the first PolicyLobList entry.
HasFirstRisk(b) ==
    /\ b.t = "dict"
    /\ Get(b, "PolicyLobList", Null).t = "list"
    /\ Len(Get(b, "PolicyLobList", Null).v) >= 1
    /\ Get(b, "PolicyLobList", Null).v[1].t = "dict"
    /\ Get(Get(b, "PolicyLobList", Null).v[1], "PolicyRiskList", Null).t = "list"
    /\ Len(Get(Get(b, "PolicyLobList", Null).v[1], "PolicyRiskList", Null).v) >= 1
    /\ Get(Get(b, "PolicyLobList", Null).v[1], "PolicyRiskList", Null).v[1].t = "dict"
FirstRisk(b) == Get(Get(b, "PolicyLobList", Null).v[1], "PolicyRiskList", Null).v[1]

\* C9: for a 200 calculate response the result's glPremium and
\* propertyPremium are XGLPremium and XCFPremium of the first risk of the
\* first line of business, and totalPremium is the response's TotalPremium.
C9_PremiumsExtracted ==
    (Returned /\ Is200(calc_out) /\ HasFirstRisk(calc_out.body)) =>
        /\ Succeeded
        /\ HasKey(FirstRisk(calc_out.body), "XGLPremium") =>
              Get(result, "glPremium", Null) =
                  Get(FirstRisk(calc_out.body), "XGLPremium", Null)
        /\ HasKey(FirstRisk(calc_out.body), "XCFPremium") =>
              Get(result, "propertyPremium", Null) =
                  Get(FirstRisk(calc_out.body), "XCFPremium", Null)
        /\ HasKey(calc_out.body, "TotalPremium") =>
              Get(result, "totalPremium", Null) =
                  Get(calc_out.body, "TotalPremium", Null)

C9_Witness ==
    /\ Returned
    /\ Succeeded
    /\ Get(calc_out.body, "TotalPremium", Null) = Num(5234)
    /\ Get(result, "glPremium", Null) = Num(2500)
    /\ Get(result, "propertyPremium", Null) = Num(2734)

\* C10: a 200 calculate response that is a JSON object without a first
\* risk entry still gives success:true, with glPremium and propertyPremium 0.
C10_BestEffortExtraction ==
    (/\ Returned
     /\ Is200(calc_out)
     /\ calc_out.body.t = "dict"
     /\ ~HasFirstRisk(calc_out.body)) =>
        /\ Succeeded
        /\ Get(result, "glPremium", Null) = Num(0)
        /\ Get(result, "propertyPremium", Null) = Num(0)

\* ------------------------------------------------- the payload builder
\* A document has been built by a direct call; Latest is the last one.
HasBuilt == built # NoBuild
Latest == built[Len(built)]

DocLob(doc) == Get(doc, "PolicyLobList", Null).v[1]
DocRisk(doc) == Get(DocLob(doc), "PolicyRiskList", Null).v[1]
DocBuilding(doc) == Get(DocRisk(doc), "PolicyRiskList", Null).v[2]
DocCoverage(doc, i) == Get(DocBuilding(doc), "PolicyCoverageList", Null).v[i]
DocCustomer(doc) == Get(doc, "PolicyCustomerList", Null).v[1]

\* Where the document carries an optional request field.
DocField(doc, f) ==
    CASE f = "businessType" -> Get(DocLob(doc), "XBusinessType", Null)
      [] f = "naicsCode" -> Get(DocLob(doc), "XNAICSCode", Null)
      [] f = "naicsDefinition" -> Get(DocLob(doc), "XNAICSDefinition", Null)
      [] f = "legalStructure" -> Get(DocLob(doc), "XLegalStructure", Null)
      [] f = "fullTimeEmpl" -> Get(DocRisk(doc), "XFullTimeEmpl", Null)
      [] f = "partTimeEmpl" -> Get(DocRisk(doc), "XPartTimeEmpl", Null)
      [] f = "buildingLimit" -> Get(DocCoverage(doc, 1), "XBldgCovLimit", Null)
      [] f = "bppLimit" -> Get(DocCoverage(doc, 2), "XBPPCovLimit", Null)
      [] f = "eachOccurrenceLimit" -> Get(DocLob(doc), "XEachOccurrenceLimit", Null)
      [] f = "generalAggregateLimit" -> Get(DocLob(doc), "XGeneralAggregateLimit", Null)

\* The documented default of an optional request field.
DocumentedDefault(f) ==
    CASE f = "businessType" -> Str("Retail")
      [] f = "naicsCode" -> Str("311811")
      [] f = "naicsDefinition" -> Str("Retail Bakeries")
      [] f = "legalStructure" -> Str("LLC")
      [] f = "fullTimeEmpl" -> Num(5)
      [] f = "partTimeEmpl" -> Num(0)
      [] f = "buildingLimit" -> Num(500000)
      [] f = "bppLimit" -> Num(100000)
      [] f = "eachOccurrenceLimit" -> Str("1,000,000 CSL")
      [] f = "generalAggregateLimit" -> Str("2,000,000 CSL")

\* C11: a built document carries, for every optional field, the value the
\* request supplies and the documented default when it supplies none.
C11_DefaultsAndOverrides ==
    HasBuilt =>
        \A f \in Range(OptionalFields) :
            DocField(Latest.doc, f) =
                IF HasKey(Latest.kwargs, f) THEN Get(Latest.kwargs, f, Null)
                ELSE DocumentedDefault(f)

C11_Witness ==
    /\ Len(built) = 2
    /\ ~HasKey(built[1].kwargs, "buildingLimit")
    /\ DocField(built[1].doc, "buildingLimit") = Num(500000)
    /\ DocField(built[1].doc, "fullTimeEmpl") = Num(5)
    /\ HasKey(built[2].kwargs, "buildingLimit")
    /\ ~HasKey(built[2].kwargs, "bppLimit")
    /\ DocField(built[2].doc, "buildingLimit") = Num(750000)

\* The day a "%Y-%m-%d" string names.
ParseDate(s) ==
    days_from_civil(ParseDecimal(SubSeq(s.v, 1, 4)),
                    ParseDecimal(SubSeq(s.v, 6, 7)),
                    ParseDecimal(SubSeq(s.v, 9, 10)))

DocDay(doc, k) == ParseDate(Get(doc, k, Null))

\* C12: in a built document ExpiryDate is 365 days after EffectiveDate, and
\* ProposalDate and EffectiveDate are the day the builder was called on.
C12_ExpiryAfter365Days ==
    HasBuilt =>
        /\ DocDay(Latest.doc, "ExpiryDate") = DocDay(Latest.doc, "EffectiveDate") + 365
        /\ Get(Latest.doc, "ProposalDate", Null) = Get(Latest.doc, "EffectiveDate", Null)
        /\ DocDay(Latest.doc, "EffectiveDate") = Latest.today

C12_Witness ==
    /\ HasBuilt
    /\ Get(Latest.doc, "EffectiveDate", Null).v
          = <<"2", "0", "2", "4", "-", "0", "2", "-", "2", "9">>
    /\ Get(Latest.doc, "ExpiryDate", Null).v
          = <<"2", "0", "2", "5", "-", "0", "2", "-", "2", "8">>

\* C13: in a built document XDateStarted and DateOfBirth are the same day,
\* 730 days before ProposalDate, also when midnight passes during the build.
C13_DateStartedTwoYearsBack ==
    HasBuilt =>
        /\ Get(DocLob(Latest.doc), "XDateStarted", Null)
              = Get(DocCustomer(Latest.doc), "DateOfBirth", Null)
        /\ ParseDate(Get(DocCustomer(Latest.doc), "DateOfBirth", Null))
              = DocDay(Latest.doc, "ProposalDate") - 730

C15_NoSharedConfig ==
    (tool.config_arg = {} /\ pc \in {"create", "calculate"}) =>
        /\ tool.session.total = DefaultMaxRetries
        /\ config.timeout_seconds = DefaultTimeoutSeconds
        /\ \A i \in 1..Len(calls) : calls[i].timeout = DefaultTimeoutSeconds

\* --------------------------------------------------- request invariant
UpperCase ==
    {"A", "B", "C", "D", "E", "F", "G", "H", "I", "J", "K", "L", "M",
     "N", "O", "P", "Q", "R", "S", "T", "U", "V", "W", "X", "Y", "Z"}

\* ^[A-Z]{2}$
IsStateCode(x) ==
    /\ x.t = "str"
    /\ Len(x.v) = 2
    /\ \A i \in 1..2 : x.v[i] \in UpperCase

\* ^\d{5}(-\d{4})?$
IsZip(x) ==
    /\ x.t = "str"
    /\ \/ Len(x.v) = 5 /\ IsDecimal(x.v)
       \/ /\ Len(x.v) = 10
          /\ IsDecimal(SubSeq(x.v, 1, 5))
          /\ x.v[6] = "-"
          /\ IsDecimal(SubSeq(x.v, 7, 10))

\* C16: a request that reaches the create endpoint has a 2-letter state
\* code and a ZIP code of the form NNNNN or NNNNN-NNNN.
C16_RequestInvariant ==
    CreateCalls # {} =>
        /\ IsStateCode(Get(kwargs, "state", Null))
        /\ IsZip(Get(kwargs, "zipCode", Null))

\* --------------------------------------------------------------- retries
CalcAttempts == Cardinality(CalcCalls)

\* An answer the retry policy is said to retry, and one it is said not to.
Retryable(out) ==
    \/ out.kind = "error"
    \/ out.kind = "resp" /\ out.status \in {429, 500, 502, 503, 504}
Rejected(out) ==
    out.kind = "resp" /\ out.status \notin {200, 429, 500, 502, 503, 504}

\* C17: a POST goes on after an answer only if the answer was 429, 500,
\* 502, 503, 504 or a transport failure; any other non-200 status ends the
\* call as a failure at once, with one attempt when it is the first answer;
\* and a call whose POSTs end in 200 after retried answers succeeds with the
\* bodies of the 200 responses.
C17_OnlyForcelistRetried ==
    /\ (pc = "create" /\ CreateCalls # {}) => Retryable(last)
    /\ (pc = "calculate" /\ CalcCalls # {}) => Retryable(last)
    /\ Rejected(last) => (Returned /\ Failed)
    /\ (Returned /\ Rejected(create_out) /\ retries = config.max_retries) =>
          (CreateAttempts = 1 /\ CalcCalls = {} /\ IsCreateFailed(result))
    /\ (Returned /\ Rejected(calc_out) /\ retries = config.max_retries) =>
          (CalcAttempts = 1 /\ IsCalculationFailed(result))
    /\ (/\ Returned
        /\ Is200(create_out)
        /\ Is200(calc_out)
        /\ calc_out.body.t = "dict"
        /\ calc_out.body # EmptyDict) =>
          /\ Succeeded
          /\ \A i \in CalcCalls : calls[i].body = create_out.body
          /\ Get(result, "totalPremium", Null)
                = Get(calc_out.body, "TotalPremium", Num(0))

C17_Witness ==
    /\ Returned
    /\ Succeeded
    /\ CreateAttempts = 3
    /\ CalcAttempts = 2
    /\ Get(result, "totalPremium", Null) = Num(5234)

\* ------------------------------------------------------------ life cycle
\* C18: whenever no method of the instance is running, _initialized is true
\* exactly if the instance holds a session.
C18_InitializedIffSession ==
    pc \in {"idle", "done"} =>
        (tool.initialized <=> tool.session # NoSession)

\* A direct _initialize that failed for want of a token or of the requests
\* package left its mark on the instance.
C18_Witness ==
    /\ pc = "idle"
    /\ runs = 0
    /\ tool.base_url # ""
    /\ (tool.api_token = "" \/ ~env.requests_installed)
    /\ ~tool.initialized
    /\ tool.session = NoSession

\* C19: close() has been called exactly once on every session the instance
\* no longer holds and not at all on the one it holds; a _cleanup without a
\* session changes nothing.
C19_ClosedExactlyOnce ==
    /\ \A id \in 1..Len(closed) :
          closed[id] = IF tool.session.id = id THEN 0 ELSE 1
    /\ tool.session = NoSession =>
          (cleanup(tool) = tool /\ cleanup_closed(tool, closed) = closed)

C19_Witness ==
    /\ env.close_raises
    /\ pc = "idle"
    /\ Len(closed) = 2
    /\ closed[1] = 1
    /\ closed[2] = 1
    /\ tool.session = NoSession
    /\ runs = 1

\* ------------------------------------------------- calls on one instance
\* The credentials a call is to use: the override when one is passed,
\* otherwise the value of the environment.
TokenOf(args) == IF args.api_token # "" THEN args.api_token ELSE env.token
UrlOf(args) == IF args.base_url # "" THEN args.base_url ELSE env.url

\* C20: while a run_sync call posts, the instance holds a session created
\* by this very call, not closed yet, that carries the call's credentials
\* (override, else environment), and every POST of the call went out with
\* them; every session of an earlier call has been closed.
C20_OwnSessionOwnCredentials ==
    pc \in {"create", "calculate"} =>
        /\ tool.session.id = call_args.sessions + 1
        /\ tool.session.id = Len(closed)
        /\ closed[tool.session.id] = 0
        /\ \A id \in 1..call_args.sessions : closed[id] = 1
        /\ tool.api_token = TokenOf(call_args)
        /\ tool.base_url = UrlOf(call_args)
        /\ tool.session.auth = TokenOf(call_args)
        /\ \A i \in 1..Len(calls) :
              /\ calls[i].auth = TokenOf(call_args)
              /\ calls[i].base = UrlOf(call_args)

\* The second call in a row, passing no override, posts with the
\* credentials of the environment in the second session.
C20_Witness ==
    /\ pc = "calculate"
    /\ runs = 2
    /\ call_args = [api_token |-> "", base_url |-> "", sessions |-> 1]
    /\ closed = <<1, 0>>
    /\ tool.session.id = 2
    /\ \A i \in 1..Len(calls) :
          calls[i].auth = env.token /\ calls[i].base = env.url

\* ------------------------------------------------------ proposal number
\* C21: a result with success true has as its proposalNo a non-empty
\* string, the ProposalNo of the create response of the same call,
\* whatever the 200 response of the calculate endpoint holds.
C21_ProposalNoOfCreate ==
    (Returned /\ Succeeded) =>
        /\ Get(result, "proposalNo", Null).t = "str"
        /\ ~Falsy(Get(result, "proposalNo", Null))
        /\ Get(result, "proposalNo", Null) = Get(created_data, "ProposalNo", Null)

====
